---------------------------- MODULE Spec2Model ----------------------------
(***************************************************************************)
(* Model of swami/__init__.py: the MCM adapter around the swami.x binary.  *)
(*                                                                         *)
(* Numbers are kept in tenths (400.0 is 4000, 2.5 is 25), so that the      *)
(* difference between the Python int 400 ("400") and the float 400.0       *)
(* ("400.0") and the truncation done by int() are visible.                 *)
(* Text is a sequence of symbols: numeric literals, words, " " and "\n".   *)
(***************************************************************************)
EXTENDS Integers, Sequences, FiniteSets, TLC

(* ------------------------------ bounds --------------------------------- *)
\* largest number of points of a request and of a response header
MaxN == 2
\* number of run calls that share one adapter in SpecConc
NumCalls == 2
\* largest length of a sequence handed to to_list in SpecToList
MaxLen == 3

(* ------------------------- Python objects ------------------------------ *)
\* ty: "int", "float", "np.generic", "np.ndarray", "list", "tuple"
Obj(ty, ndim, v, elems) == [ty |-> ty, ndim |-> ndim, v |-> v, elems |-> elems]
PyInt(i) == Obj("int", 0, 10 * i, <<>>)
PyFloat(tenths) == Obj("float", 0, tenths, <<>>)
NpScalar(tenths) == Obj("np.generic", 0, tenths, <<>>)
PyList(elems) == Obj("list", 1, 0, elems)
PyTuple(elems) == Obj("tuple", 1, 0, elems)
NdArray0(tenths) == Obj("np.ndarray", 0, tenths, <<>>)
NdArray1(elems) == Obj("np.ndarray", 1, 0, elems)
NdArray2(rows) == Obj("np.ndarray", 2, 0, rows)

IsList(o) == o.ty = "list"

\* numpy.ndarray.tolist(): a 0-d array gives a Python scalar, not a list;
\* an n-d array gives a list of the tolist() of its items
RECURSIVE Tolist(_)
Tolist(a) ==
    IF a.ty = "np.generic" THEN PyFloat(a.v)
    ELSE IF a.ndim = 0 THEN PyFloat(a.v)
    ELSE PyList([i \in 1..Len(a.elems) |-> Tolist(a.elems[i])])

\* MCM.to_list
to_list(x) ==
    IF x.ty \in {"float", "int", "np.generic"} THEN PyList(<<x>>)
    ELSE IF x.ty = "np.ndarray" THEN Tolist(x)
    ELSE PyList(x.elems)

(* ------------------------------- text ---------------------------------- *)
\* t: "int" (literal i), "dec" (literal i.f), "word" (s), "sp", "nl"
Sym(t, s, i, f) == [t |-> t, s |-> s, i |-> i, f |-> f]
IntLit(i) == Sym("int", "", i, 0)
DecLit(i, f) == Sym("dec", "", i, f)
Word(s) == Sym("word", s, 0, 0)
SP == Sym("sp", " ", 0, 0)
NL == Sym("nl", "\n", 0, 0)
IsSpace(c) == c.t \in {"sp", "nl"}

\* str.strip().split(): the maximal runs of non-whitespace symbols; the
\* texts of the model hold one symbol per run
Split(text) == SelectSeq(text, LAMBDA c : ~IsSpace(c))

\* float(token): the value in tenths, or a ValueError
IsNumeric(tok) == tok.t \in {"int", "dec"}
Float(tok) ==
    IF tok.t = "int" THEN 10 * tok.i
    ELSE IF tok.i < 0 THEN 10 * tok.i - tok.f
    ELSE 10 * tok.i + tok.f

\* int(float): truncation towards zero
IntOf(tenths) == IF tenths >= 0 THEN tenths \div 10 ELSE -((-tenths) \div 10)

\* str(x) of a number: "400" for an int, "400.0" for a float
Str(x) ==
    IF x.ty = "int" THEN IntLit(IntOf(x.v))
    ELSE IF x.ty \in {"float", "np.generic"}
         THEN DecLit(IntOf(x.v), IF x.v >= 0 THEN x.v % 10 ELSE (-x.v) % 10)
    ELSE Sym("repr", "list", Len(x.elems), 0)

\* " ".join(map(str, xs))
Join(xs) ==
    IF xs = <<>> THEN <<>>
    ELSE [i \in 1..(2 * Len(xs) - 1) |->
            IF i % 2 = 1 THEN Str(xs[(i + 1) \div 2]) ELSE SP]

(* --------------------------- Python slices ----------------------------- *)
\* the index a slice bound n denotes in a sequence of length len
Clamp(n, len) ==
    IF n < 0 THEN (IF len + n < 0 THEN 0 ELSE len + n)
    ELSE IF n > len THEN len ELSE n
\* s[:n]
SliceTo(s, n) == SubSeq(s, 1, Clamp(n, Len(s)))
\* s[n:]
SliceFrom(s, n) == SubSeq(s, Clamp(n, Len(s)) + 1, Len(s))

(* ----------------------------- MCMOutput ------------------------------- *)
\* the number of arrays swami.x returns
NumFields == 25

\* the order in which _read_output unpacks the arrays
FieldOrder ==
    << "altitude", "day_of_year", "local_time", "latitude", "longitude",
       "f107", "f107m", "kp1", "kp2", "dens", "temp", "wmm", "d_H", "d_He",
       "d_O", "d_N2", "d_O2", "d_N", "tinf", "dens_unc", "dens_std",
       "xwind", "ywind", "xwind_std", "ywind_std" >>

\* the dataclass, built from the unpacked arrays
MCMOutput(a) ==
    [ altitude |-> a[1], day_of_year |-> a[2], local_time |-> a[3],
      latitude |-> a[4], longitude |-> a[5], f107 |-> a[6], f107m |-> a[7],
      kp1 |-> a[8], kp2 |-> a[9], dens |-> a[10], temp |-> a[11],
      wmm |-> a[12], d_H |-> a[13], d_He |-> a[14], d_O |-> a[15],
      d_N2 |-> a[16], d_O2 |-> a[17], d_N |-> a[18], tinf |-> a[19],
      dens_unc |-> a[20], dens_std |-> a[21], xwind |-> a[22],
      ywind |-> a[23], xwind_std |-> a[24], ywind_std |-> a[25] ]

(* --------------------------- _read_output ------------------------------ *)
Raised(err) == [err |-> err, rec |-> <<>>]
Returned(rec) == [err |-> "none", rec |-> rec]

\* list(map(float, out.split()))
Floats(toks) == [i \in 1..Len(toks) |-> Float(toks[i])]

\* the loop with an off-by-one fault: it takes every chunk one value further on
RECURSIVE ReadArraysShifted(_, _, _)
ReadArraysShifted(values, length, todo) ==
    IF todo = 0 THEN [err |-> "none", arrays |-> <<>>]
    ELSE LET arr == SliceTo(SliceFrom(values, 1), length)
             rest == SliceFrom(values, length)
         IN  IF length = 1 /\ arr = <<>>
             THEN [err |-> "IndexError", arrays |-> <<>>]
             ELSE LET more == ReadArraysShifted(rest, length, todo - 1)
                      one == IF length = 1 THEN PyFloat(arr[1])
                             ELSE PyList([i \in 1..Len(arr) |-> PyFloat(arr[i])])
                  IN  IF more.err # "none" THEN more
                      ELSE [err |-> "none", arrays |-> <<one>> \o more.arrays]

\* the loop "for _ in range(25)": todo chunks are still to be taken
RECURSIVE ReadArrays(_, _, _)
ReadArrays(values, length, todo) ==
    IF todo = 0 THEN [err |-> "none", arrays |-> <<>>]
    ELSE LET arr == SliceTo(values, length)
             rest == SliceFrom(values, length)
         IN  IF length = 1 /\ arr = <<>>
             THEN [err |-> "IndexError", arrays |-> <<>>]
             ELSE LET more == ReadArrays(rest, length, todo - 1)
                      one == IF length = 1 THEN PyFloat(arr[1])
                             ELSE PyList([i \in 1..Len(arr) |-> PyFloat(arr[i])])
                  IN  IF more.err # "none" THEN more
                      ELSE [err |-> "none", arrays |-> <<one>> \o more.arrays]

\* MCM._read_output
read_output(out) ==
    LET toks == Split(out)
    IN  IF \E i \in 1..Len(toks) : ~IsNumeric(toks[i]) THEN Raised("ValueError")
        ELSE IF toks = <<>> THEN Raised("IndexError")
        ELSE LET values == Floats(toks)
                 length == IntOf(values[1])
                 got == ReadArrays(Tail(values), length, NumFields)
             IN  IF got.err # "none" THEN Raised(got.err)
                 ELSE Returned(MCMOutput(got.arrays))

\* the cardinality of a field: -1 for a bare scalar, else the list's length
Card(field) == IF IsList(field) THEN Len(field.elems) ELSE -1

(* ------------------------------ paths ---------------------------------- *)
\* a Path is the sequence of its segments below the root; str(Path)
PathStr(p) ==
    IF p = <<>> THEN <<Word("/")>>
    ELSE LET F[i \in 0..Len(p)] ==
                 IF i = 0 THEN <<>> ELSE F[i - 1] \o <<Word("/"), Word(p[i])>>
         IN  F[Len(p)]
\* os.path.join(a, name) on text a
PathJoin(a, name) ==
    IF a # <<>> /\ a[Len(a)] = Word("/") THEN a \o <<Word(name)>>
    ELSE a \o <<Word("/"), Word(name)>>

\* MCM.__init__, pwd being the directory that holds the module
MCMInit(pwd) ==
    LET path_to_data == pwd \o <<"data">>
    IN  [ path_to_bin |-> pwd \o <<"swami.x">>,
          path_to_data |-> path_to_data,
          data_dtm |-> PathStr(path_to_data) \o <<Word("/")>>,
          data_um |-> PathJoin(PathStr(path_to_data), "um") \o <<Word("/")>> ]

\* MCM.fortran_bool
fortran_bool(b) == IF b THEN Word("T") ELSE Word("F")

(* ------------------------- run: validation ----------------------------- *)
\* the nine numeric parameters of run, in the order of its signature
VarOrder ==
    << "altitude", "day_of_year", "local_time", "latitude", "longitude",
       "f107", "f107m", "kp1", "kp2" >>
NumVars == 9

\* lines 202-210: every parameter through to_list
Normalize(a) == [j \in 1..NumVars |-> to_list(a[VarOrder[j]])]

\* lines 213-218: len() of a non-sequence is a TypeError; more than one
\* distinct length is the ValueError
Lengths(norm) == {Len(norm[j].elems) : j \in 1..NumVars}
CheckLengths(norm) ==
    IF \E j \in 1..NumVars : ~IsList(norm[j]) THEN "TypeError"
    ELSE IF Cardinality(Lengths(norm)) # 1 THEN "ValueError"
    ELSE "none"

(* ------------------------ run: the request text ------------------------ *)
\* the request with a fault: it writes the two flags in the order of run's signature
InputDataFlagsSwapped(me, norm, get_uncertainty, get_winds) ==
    LET Line(j) == Join(norm[j].elems) \o <<NL>>
        F[j \in 0..NumVars] == IF j = 0 THEN <<>> ELSE F[j - 1] \o Line(j)
    IN  <<IntLit(Len(norm[1].elems)), NL>> \o F[NumVars]
        \o <<fortran_bool(get_uncertainty), NL>>
        \o <<fortran_bool(get_winds), NL>>
        \o me.data_dtm \o <<NL>>
        \o me.data_um \o <<NL>>

\* lines 220-238
InputData(me, norm, get_uncertainty, get_winds) ==
    LET Line(j) == Join(norm[j].elems) \o <<NL>>
        F[j \in 0..NumVars] == IF j = 0 THEN <<>> ELSE F[j - 1] \o Line(j)
    IN  <<IntLit(Len(norm[1].elems)), NL>> \o F[NumVars]
        \o <<fortran_bool(get_winds), NL>>
        \o <<fortran_bool(get_uncertainty), NL>>
        \o me.data_dtm \o <<NL>>
        \o me.data_um \o <<NL>>

(* ------------------------------ inputs --------------------------------- *)
\* the value of point i of variable j, in tenths: distinct for distinct (j, i)
Val(j, i) == 100 * j + 10 * i + 5
Floats1(j, n) == [i \in 1..n |-> PyFloat(Val(j, i))]
Items1(j, n) == [i \in 1..n |-> NpScalar(Val(j, i))]

\* what a caller may pass for variable j besides a list of floats
Shapes(j) ==
    { NpScalar(Val(j, 1)), NdArray0(Val(j, 1)) }
    \cup { PyList(Floats1(j, n)) : n \in 0..MaxN }
    \cup { PyTuple(Floats1(j, n)) : n \in 0..MaxN }
    \cup { NdArray1(Items1(j, n)) : n \in 0..MaxN }
\* the variables that are given in another shape: first, middle, last
OddPositions == { 1, 5, NumVars }

Args(vals, unc, winds) ==
    [ altitude |-> vals[1], day_of_year |-> vals[2], local_time |-> vals[3],
      latitude |-> vals[4], longitude |-> vals[5], f107 |-> vals[6],
      f107m |-> vals[7], kp1 |-> vals[8], kp2 |-> vals[9],
      get_uncertainty |-> unc, get_winds |-> winds ]

\* nine lists of n points
Uniform(n) == [j \in 1..NumVars |-> PyList(Floats1(j, n))]
\* nine bare numbers, ints and floats in turn
Scalars == [j \in 1..NumVars |-> IF j % 2 = 1 THEN PyInt(10 * j) ELSE PyFloat(Val(j, 1))]

\* the calls of the single-call specification: nine lists of n points with
\* at most one variable given in another shape or length, or nine numbers
OneOdd ==
    UNION { UNION { { [Uniform(n) EXCEPT ![k] = x] : x \in Shapes(k) } :
                    k \in OddPositions } : n \in 0..MaxN }
RunArgs ==
    { Args(vals, unc, winds) :
        vals \in { Scalars } \cup { Uniform(n) : n \in 0..MaxN } \cup OneOdd,
        unc \in BOOLEAN, winds \in BOOLEAN }

\* the calls of the concurrent specification: call c asks for its own
\* number of points, with its own flags
ConcArgs(c) ==
    IF c % 2 = 1 THEN Args(Uniform(1), FALSE, TRUE)
    ELSE Args(Uniform(MaxN), TRUE, FALSE)

(* ------------------------ what swami.x may write ----------------------- *)
\* the k-th value after the header
OutTok(k) == DecLit(k, 5)
\* a header, count values (the one at position bad, if any, unreadable),
\* one line each
Stream(header, count, bad) ==
    <<header, NL>>
    \o [i \in 1..(2 * count) |->
          IF i % 2 = 1
          THEN (IF (i + 1) \div 2 = bad THEN Word("***") ELSE OutTok((i + 1) \div 2))
          ELSE (IF i = 2 * count THEN NL ELSE SP)]

Headers ==
    { IntLit(n) : n \in (-1)..(MaxN + 1) } \cup { DecLit(n, f) : n \in 1..MaxN, f \in {0, 7} }

\* the streams _read_output is applied to in SpecParse
Streams ==
    { <<>>, <<NL>> }
    \cup { Stream(h, count, 0) : h \in Headers, count \in 0..(NumFields * MaxN + 1) }
    \cup UNION { { Stream(IntLit(n), NumFields * n + 1, bad) :
                      bad \in {1, NumFields * n + 1} } : n \in 1..MaxN }
    \cup { <<Word("***"), NL>> }

\* what a child of run writes and how it exits
Behaviour(plan, cut, status) == [plan |-> plan, cut |-> cut, status |-> status]
RunBehaviours ==
    UNION { { Behaviour(Stream(IntLit(n), count, bad), 2 * status, status) :
                count \in {0, NumFields * n - 1, NumFields * n} \cap (0..(NumFields * MaxN)),
                bad \in {0, NumFields * n}, status \in {0, 1} } :
            n \in 0..MaxN }
    \cup { Behaviour(Stream(IntLit(1), NumFields, 0), 2, 0), Behaviour(<<>>, 0, 0) }
\* in the concurrent specification the p-th child spawned answers for
\* 1 + ((p - 1) % MaxN) points, so that children spawned in turn differ
ConcBehaviours(p) ==
    LET n == 1 + ((p - 1) % MaxN)
    IN  { Behaviour(Stream(IntLit(n), NumFields * n, 0), 0, 0) }

\* where the module may be installed
InstallDirs == { <<"opt", "swami">>, <<"site-packages", "swami">> }

(* ------------------------------- state --------------------------------- *)
VARIABLES
    mode,       \* "single", "conc", "parse" or "to_list": which specification runs
    self,       \* the MCM instance: path_to_bin, path_to_data, data_dtm, data_um
    args,       \* per call: the arguments of run
    pc,         \* per call: where the call is
    norm,       \* per call: the nine variables after to_list
    inputData,  \* per call: the request text
    proc,       \* per call: the child it spawned (0: none)
    out,        \* per call: what communicate has read of the child's stdout
    result,     \* per call: what _read_output gave
    error,      \* per call: the exception that ended the call ("none": none)
    popens,     \* per call: the number of subprocess.Popen calls
    parses,     \* per call: the number of _read_output calls
    children,   \* the child processes, in the order they were spawned
    fin,        \* the argument of the pure function under test
    fout,       \* its result
    fpc         \* "idle", "ready" or "done"

vars == << mode, self, args, pc, norm, inputData, proc, out, result, error,
           popens, parses, children, fin, fout, fpc >>
callVars == << args, pc, norm, inputData, proc, out, result, error, popens, parses >>
pureVars == << fin, fout, fpc >>

Calls == DOMAIN pc
Unset == [err |-> "unset", rec |-> <<>>]

InitCalls(ids, a) ==
    /\ args = a
    /\ pc = [c \in ids |-> "start"]
    /\ norm = [c \in ids |-> <<>>]
    /\ inputData = [c \in ids |-> <<>>]
    /\ proc = [c \in ids |-> 0]
    /\ out = [c \in ids |-> <<>>]
    /\ result = [c \in ids |-> Unset]
    /\ error = [c \in ids |-> "none"]
    /\ popens = [c \in ids |-> 0]
    /\ parses = [c \in ids |-> 0]
    /\ children = <<>>

InitPure(m, inputs) ==
    /\ mode = m
    /\ self = MCMInit(<<"opt", "swami">>)
    /\ InitCalls({}, <<>>)
    /\ fin \in inputs
    /\ fout = <<>>
    /\ fpc = "ready"

\* one call of run on a fresh instance
Init ==
    /\ mode = "single"
    /\ self \in { MCMInit(d) : d \in InstallDirs }
    /\ \E a \in [{1} -> RunArgs] : InitCalls({1}, a)
    /\ fin = <<>> /\ fout = <<>> /\ fpc = "idle"

\* NumCalls calls of run on one instance, from as many threads
InitConc ==
    /\ mode = "conc"
    /\ self = MCMInit(<<"opt", "swami">>)
    /\ InitCalls(1..NumCalls, [c \in 1..NumCalls |-> ConcArgs(c)])
    /\ fin = <<>> /\ fout = <<>> /\ fpc = "idle"

(* ----------------------------- run, by step ---------------------------- *)
\* lines 201-218: normalise, then check the lengths
Validate(c) ==
    /\ pc[c] = "start"
    /\ LET n == Normalize(args[c])
           e == CheckLengths(n)
       IN  /\ norm' = [norm EXCEPT ![c] = n]
           /\ error' = [error EXCEPT ![c] = e]
           /\ pc' = [pc EXCEPT ![c] = IF e = "none" THEN "validated" ELSE "raised"]
    /\ UNCHANGED << mode, self, args, inputData, proc, out, result, popens, parses,
                    children, pureVars >>

\* a faulty BuildInput that keeps the request on the instance, shared by all calls
BuildInputShared(c) ==
    /\ pc[c] = "validated"
    /\ inputData' = [d \in Calls |->
                       InputData(self, norm[c], args[c].get_uncertainty, args[c].get_winds)]
    /\ pc' = [pc EXCEPT ![c] = "built"]
    /\ UNCHANGED << mode, self, args, norm, proc, out, result, error, popens, parses,
                    children, pureVars >>

\* lines 220-238: the request text, a local of the call
BuildInput(c) ==
    /\ pc[c] = "validated"
    /\ inputData' = [inputData EXCEPT ![c] =
                       InputData(self, norm[c], args[c].get_uncertainty, args[c].get_winds)]
    /\ pc' = [pc EXCEPT ![c] = "built"]
    /\ UNCHANGED << mode, self, args, norm, proc, out, result, error, popens, parses,
                    children, pureVars >>

Child(b) ==
    [ stdin |-> <<>>, stdinClosed |-> FALSE, plan |-> b.plan, cut |-> b.cut,
      written |-> 0, exited |-> FALSE, status |-> b.status ]
BehavioursNow ==
    IF mode = "conc" THEN ConcBehaviours(Len(children) + 1) ELSE RunBehaviours

\* lines 241-246: subprocess.Popen starts swami.x
Popen(c) ==
    /\ pc[c] = "built"
    /\ \E b \in BehavioursNow :
          children' = Append(children, Child(b))
    /\ proc' = [proc EXCEPT ![c] = Len(children) + 1]
    /\ popens' = [popens EXCEPT ![c] = @ + 1]
    /\ pc' = [pc EXCEPT ![c] = "spawned"]
    /\ UNCHANGED << mode, self, args, norm, inputData, out, result, error, parses,
                    pureVars >>

\* lines 241-246: subprocess.Popen raises OSError, swami.x cannot be started
PopenFails(c) ==
    /\ pc[c] = "built"
    /\ popens' = [popens EXCEPT ![c] = @ + 1]
    /\ error' = [error EXCEPT ![c] = "OSError"]
    /\ pc' = [pc EXCEPT ![c] = "raised"]
    /\ UNCHANGED << mode, self, args, norm, inputData, proc, out, result, parses,
                    children, pureVars >>

\* line 249, communicate: the request goes to the child's stdin
CommWrite(c) ==
    /\ pc[c] = "spawned"
    /\ children' = [children EXCEPT ![proc[c]].stdin = inputData[c]]
    /\ pc' = [pc EXCEPT ![c] = "written"]
    /\ UNCHANGED << mode, self, args, norm, inputData, proc, out, result, error,
                    popens, parses, pureVars >>

\* line 249, communicate: stdin is closed
CommClose(c) ==
    /\ pc[c] = "written"
    /\ children' = [children EXCEPT ![proc[c]].stdinClosed = TRUE]
    /\ pc' = [pc EXCEPT ![c] = "closed"]
    /\ UNCHANGED << mode, self, args, norm, inputData, proc, out, result, error,
                    popens, parses, pureVars >>

\* swami.x writes the next part of its output
ChildEmit(p) ==
    /\ ~children[p].exited
    /\ children[p].written < Len(children[p].plan)
    /\ children' = [children EXCEPT ![p].written =
                      IF @ < children[p].cut /\ children[p].cut < Len(children[p].plan)
                      THEN children[p].cut ELSE Len(children[p].plan)]
    /\ UNCHANGED << mode, self, callVars, pureVars >>

\* swami.x exits
ChildExit(p) ==
    /\ ~children[p].exited
    /\ children[p].written = Len(children[p].plan)
    /\ children' = [children EXCEPT ![p].exited = TRUE]
    /\ UNCHANGED << mode, self, callVars, pureVars >>

\* line 249, communicate: what the child has written so far is read
CommRead(c) ==
    /\ pc[c] = "closed"
    /\ Len(out[c]) < children[proc[c]].written
    /\ out' = [out EXCEPT ![c] =
                 SubSeq(children[proc[c]].plan, 1, children[proc[c]].written)]
    /\ UNCHANGED << mode, self, args, pc, norm, inputData, proc, result, error,
                    popens, parses, children, pureVars >>

\* a faulty communicate that returns what it has without waiting
CommWaitEarly(c) ==
    /\ pc[c] = "closed"
    /\ pc' = [pc EXCEPT ![c] = "communicated"]
    /\ UNCHANGED << mode, self, args, norm, inputData, proc, out, result, error,
                    popens, parses, children, pureVars >>

\* line 249, communicate: end of file on stdout and the child has exited
CommWait(c) ==
    /\ pc[c] = "closed"
    /\ children[proc[c]].exited
    /\ Len(out[c]) = children[proc[c]].written
    /\ pc' = [pc EXCEPT ![c] = "communicated"]
    /\ UNCHANGED << mode, self, args, norm, inputData, proc, out, result, error,
                    popens, parses, children, pureVars >>

\* line 251: the exit status is not looked at; out goes to _read_output
Parse(c) ==
    /\ pc[c] = "communicated"
    /\ LET r == read_output(out[c])
       IN  /\ result' = [result EXCEPT ![c] = r]
           /\ error' = [error EXCEPT ![c] = r.err]
           /\ pc' = [pc EXCEPT ![c] = IF r.err = "none" THEN "returned" ELSE "raised"]
    /\ parses' = [parses EXCEPT ![c] = @ + 1]
    /\ UNCHANGED << mode, self, args, norm, inputData, proc, out, popens, children,
                    pureVars >>

Next ==
    \/ \E c \in Calls : Validate(c)
    \/ \E c \in Calls : BuildInput(c)
    \/ \E c \in Calls : Popen(c)
    \/ \E c \in Calls : PopenFails(c)
    \/ \E c \in Calls : CommWrite(c)
    \/ \E c \in Calls : CommClose(c)
    \/ \E p \in DOMAIN children : ChildEmit(p)
    \/ \E p \in DOMAIN children : ChildExit(p)
    \/ \E c \in Calls : CommRead(c)
    \/ \E c \in Calls : CommWait(c)
    \/ \E c \in Calls : Parse(c)

Spec == Init /\ [][Next]_vars
SpecConc == InitConc /\ [][Next]_vars

(* ------------------------- the pure functions -------------------------- *)
\* _read_output applied to a stream
ApplyReadOutput ==
    /\ mode = "parse" /\ fpc = "ready"
    /\ fout' = read_output(fin)
    /\ fpc' = "done"
    /\ UNCHANGED << mode, self, callVars, children, fin >>

InitParse == InitPure("parse", Streams)
SpecParse == InitParse /\ [][ApplyReadOutput]_vars

\* what to_list is applied to in SpecToList
Nums == { 5, 10, 25 }
Seqs(S, n) == UNION { [1..k -> S] : k \in 0..n }
ToListInputs ==
    { PyInt(i) : i \in 0..2 } \cup { PyFloat(v) : v \in Nums }
    \cup { NpScalar(v) : v \in Nums } \cup { NdArray0(v) : v \in Nums }
    \cup { PyList(e) : e \in Seqs({ PyFloat(v) : v \in Nums }, MaxLen) }
    \cup { PyTuple(e) : e \in Seqs({ PyInt(i) : i \in 1..2 }, MaxLen) }
    \cup { NdArray1(e) : e \in Seqs({ NpScalar(v) : v \in Nums }, MaxLen) }
    \cup { NdArray2(<<NdArray1(e), NdArray1(e)>>) :
             e \in Seqs({ NpScalar(v) : v \in Nums }, 1) }

\* to_list applied to a value
ApplyToList ==
    /\ mode = "to_list" /\ fpc = "ready"
    /\ fout' = to_list(fin)
    /\ fpc' = "done"
    /\ UNCHANGED << mode, self, callVars, children, fin >>

InitToList == InitPure("to_list", ToListInputs)
SpecToList == InitToList /\ [][ApplyToList]_vars

(* ------------------------------ claims --------------------------------- *)
\* how far a call has come
Rank(p) ==
    CASE p = "start" -> 0 [] p = "validated" -> 1 [] p = "built" -> 2
      [] p = "spawned" -> 3 [] p = "written" -> 4 [] p = "closed" -> 5
      [] p = "communicated" -> 6 [] p = "returned" -> 7 [] p = "raised" -> 7

Done(c) == pc[c] \in {"returned", "raised"}
\* the nine normalised variables are sequences of one common length
SameLength(n) ==
    \E len \in 0..(MaxN + 1) :
        \A j \in 1..NumVars : IsList(n[j]) /\ Len(n[j].elems) = len
\* the number of points of a validated call
Size(c) == Len(norm[c][1].elems)
\* the call's arguments pass the checks of lines 213-218
Valid(c) == CheckLengths(Normalize(args[c])) = "none"
\* the child of a call
ChildOf(c) == children[proc[c]]

\* C1: a call whose nine normalised variables do not all have the same
\* length fails with ValueError, and no process has been spawned by it.
C1_MismatchIsValueError ==
    \A c \in Calls :
        (pc[c] # "start" /\ ~SameLength(norm[c]))
            => (pc[c] = "raised" /\ error[c] = "ValueError"
                /\ popens[c] = 0 /\ proc[c] = 0)

\* the part of C1 that the code keeps: a call that fails validation, with
\* either exception, has not called Popen
C1_NoSpawnOnInvalid ==
    \A c \in Calls :
        (pc[c] # "start" /\ ~SameLength(norm[c]))
            => (pc[c] = "raised" /\ error[c] \in {"ValueError", "TypeError"}
                /\ popens[c] = 0 /\ proc[c] = 0)

\* the header of a parsed stream, when it denotes a whole number
Toks == Split(fin)
HasHeader == Toks # <<>> /\ IsNumeric(Toks[1]) /\ Float(Toks[1]) % 10 = 0
HeaderN == IntOf(Float(Toks[1]))

\* C2: on a stream whose first token is N and that holds fewer than
\* 1 + 25*N tokens, _read_output raises and returns no record.
C2_ShortStreamRaises ==
    (mode = "parse" /\ fpc = "done" /\ HasHeader
       /\ Len(Toks) < 1 + NumFields * HeaderN)
        => fout.err # "none"

\* C3: a call with valid inputs of N >= 1 points that returns a record
\* returns one whose every field has cardinality N: a list of N values when
\* N >= 2, a bare scalar when N = 1.
C3_CardinalityOfRequest ==
    \A c \in Calls :
        (pc[c] = "returned" /\ Size(c) >= 1)
            => \A k \in 1..NumFields :
                  Card(result[c].rec[FieldOrder[k]])
                      = (IF Size(c) = 1 THEN -1 ELSE Size(c))

\* C4: every record _read_output returns has 25 fields of one cardinality.
C4_OneCardinality ==
    (mode = "parse" /\ fpc = "done" /\ fout.err = "none")
        => \A k \in 1..NumFields :
              Card(fout.rec[FieldOrder[k]]) = Card(fout.rec[FieldOrder[1]])

\* point i of an argument of run as the caller gave it, in tenths
ArgValue(x, i) == IF x.ndim = 0 THEN x.v ELSE x.elems[i].v

\* the lines of a text: what stands before each "\n"
RECURSIVE SplitLines(_)
SplitLines(text) ==
    IF text = <<>> THEN <<>>
    ELSE LET first == CHOOSE i \in 1..(Len(text) + 1) :
                          /\ i = Len(text) + 1 \/ text[i] = NL
                          /\ \A k \in 1..(i - 1) : text[k] # NL
         IN  <<SubSeq(text, 1, first - 1)>>
             \o SplitLines(SubSeq(text, first + 1, Len(text)))

WellFormed ==
    /\ \A i \in 1..Len(Toks) : IsNumeric(Toks[i])
    /\ HasHeader /\ HeaderN >= 1
    /\ Len(Toks) >= 1 + NumFields * HeaderN

\* C6: on a well-formed stream the k-th field (k = 0..24) of the fixed
\* order holds the tokens 1+k*N .. (k+1)*N of the stream, in order, as a
\* list when N >= 2 and as a bare scalar when N = 1.
C6_FieldsByPosition ==
    (mode = "parse" /\ fpc = "done" /\ WellFormed)
        => /\ fout.err = "none"
           /\ DOMAIN fout.rec = { FieldOrder[k] : k \in 1..NumFields }
           /\ \A k \in 0..(NumFields - 1) :
                 LET field == fout.rec[FieldOrder[k + 1]]
                     At(i) == Float(Toks[1 + k * HeaderN + i])
                 IN  IF HeaderN = 1
                     THEN field = PyFloat(At(1))
                     ELSE /\ IsList(field)
                          /\ Len(field.elems) = HeaderN
                          /\ \A i \in 1..HeaderN : field.elems[i] = PyFloat(At(i))

\* C7: when swami.x cannot be started, exits with a status other than 0 or
\* writes nothing, the call ends with an ExecutionError and the output
\* never reaches the parser.
C7_FailureIsExecutionError ==
    \A c \in Calls :
        /\ (Done(c) /\ error[c] = "OSError") => error[c] = "ExecutionError"
        /\ (Done(c) /\ proc[c] # 0 /\ (ChildOf(c).status # 0 \/ ChildOf(c).plan = <<>>))
              => (error[c] = "ExecutionError" /\ parses[c] = 0 /\ result[c] = Unset)

\* C8: a validated call calls Popen once; the parser runs at most once, and
\* only when the whole request was written to the child's stdin, stdin was
\* closed, the child has exited and all it wrote has been read; before that
\* nothing has been parsed.
C8_OneCycle ==
    \A c \in Calls :
        /\ popens[c] <= 1 /\ parses[c] <= 1
        /\ popens[c] = (IF Valid(c) /\ Rank(pc[c]) >= 3 THEN 1 ELSE 0)
        /\ proc[c] # 0 => Cardinality({ d \in Calls : proc[d] = proc[c] }) = 1
        /\ Rank(pc[c]) < 6 => (parses[c] = 0 /\ result[c] = Unset)
        /\ Rank(pc[c]) < 5 => out[c] = <<>>
        /\ (Rank(pc[c]) >= 6 /\ proc[c] # 0) =>
              /\ ChildOf(c).stdin = inputData[c]
              /\ ChildOf(c).stdinClosed
              /\ ChildOf(c).exited
              /\ out[c] = ChildOf(c).plan
        /\ parses[c] = 1 => (proc[c] # 0 /\ result[c] = read_output(ChildOf(c).plan))

\* C10: run leaves the instance as __init__ made it; every call has a child
\* of its own, sends the request of its own arguments to it, and returns
\* what the parser makes of that child's output.
C10_CallsIndependent ==
    /\ self = MCMInit(<<"opt", "swami">>)
    /\ \A c \in Calls :
          /\ (Valid(c) /\ Rank(pc[c]) >= 2) =>
                inputData[c] = InputData(MCMInit(<<"opt", "swami">>), Normalize(args[c]),
                                         args[c].get_uncertainty, args[c].get_winds)
          /\ proc[c] # 0 =>
                /\ \A d \in Calls \ {c} : proc[d] # proc[c]
                /\ ChildOf(c).stdin \in {<<>>, inputData[c]}
                /\ out[c] = SubSeq(ChildOf(c).plan, 1, Len(out[c]))
          /\ parses[c] = 1 => result[c] = read_output(ChildOf(c).plan)

\* C9: to_list gives a list for every shape: one element, the value itself,
\* for a bare scalar; the same elements in the same order for a list, a
\* tuple or an array of any dimension.
C9_AlwaysAList ==
    (mode = "to_list" /\ fpc = "done")
        => /\ IsList(fout)
           /\ fin.ndim = 0 =>
                 (Len(fout.elems) = 1 /\ fout.elems[1].v = fin.v)
           /\ fin.ndim > 0 =>
                 /\ Len(fout.elems) = Len(fin.elems)
                 /\ \A i \in 1..Len(fin.elems) : fout.elems[i].v = fin.elems[i].v

C6_Witness ==
    /\ mode = "parse" /\ fpc = "done" /\ WellFormed
    /\ HeaderN = 2 /\ Len(Toks) = 2 + NumFields * HeaderN

\* a call returned a record from a child that wrote its output in two parts
C8_Witness ==
    \E c \in Calls :
        /\ pc[c] = "returned" /\ parses[c] = 1 /\ popens[c] = 1
        /\ ChildOf(c).cut > 0 /\ ChildOf(c).cut < Len(ChildOf(c).plan)

\* two calls with different arguments have both returned, each from its child
C10_Witness ==
    \E c, d \in Calls :
        /\ c # d /\ pc[c] = "returned" /\ pc[d] = "returned"
        /\ args[c] # args[d] /\ proc[c] > proc[d]
        /\ result[c] # result[d]

=============================================================================
